---- MODULE Spec2Model ----
(***************************************************************************)
(* Model of lpabon/bufferio (bufferio.go): a fixed-length byte buffer with *)
(* a cursor, positional and sequential reads/writes, Seek, Reset and the   *)
(* encoding/binary based WriteData/ReadData.                               *)
(*                                                                         *)
(* One BufferIO object is modelled.  Every method is one action; the       *)
(* action records the call (arguments, results, state before the call) in  *)
(* `last`, and `hist` keeps what has been called since construction.  The  *)
(* methods are synchronous: a call is made when no call is outstanding,    *)
(* and DoReturn is the caller taking the results and dropping the record.  *)
(***************************************************************************)
EXTENDS Integers, Sequences, FiniteSets, TLC

VARIABLES buf, off, last, hist

vars == <<buf, off, last, hist>>

----------------------------------------------------------------------------
(* Bounds of the model *)

\* longest backing slice handed to a constructor
MaxLen == 3
\* longest p []byte argument
MaxData == 3
\* width of the model's int64: two's complement over IntBits bits
IntBits == 4
\* most fields in a value handed to WriteData/ReadData
MaxFields == 1

\* byte values the inputs are drawn from
ByteVals == {0, 1}

----------------------------------------------------------------------------
(* int64 arithmetic *)

TwoPow(k) == 2 ^ k
MaxInt64 == TwoPow(IntBits - 1) - 1
MinInt64 == 0 - TwoPow(IntBits - 1)
Int64 == MinInt64 .. MaxInt64

\* x + y on int64 wraps around
Add64(x, y) == ((x + y - MinInt64) % TwoPow(IntBits)) + MinInt64

Min(a, b) == IF a < b THEN a ELSE b

----------------------------------------------------------------------------
(* Error values *)

NoErr == "nil"
ErrOverrun == "buffer overrun"
ErrEOF == "end of file"
ErrWhence == "invalid whence"
ErrNegative == "negative position"
\* run-time panic: slice bounds out of range
Panic == "panic: slice bounds out of range"
\* errors of encoding/binary and io
ErrInvalidType == "binary: invalid type"
IoEOF == "EOF"
IoUnexpectedEOF == "unexpected EOF"

\* the errors the specification calls InvalidArgument
InvalidArgument == {ErrWhence, ErrNegative}

\* os.SEEK_SET, os.SEEK_CUR, os.SEEK_END
SEEK_SET == 0
SEEK_CUR == 1
SEEK_END == 2
\* the whence arguments tried: the three modes and one unknown value
Whences == 0 .. 3

----------------------------------------------------------------------------
(* Input sets *)

SeqsUpTo(S, n) == UNION {[1 .. k -> S] : k \in 0 .. n}

\* backing slices a buffer is constructed over
Buffers == SeqsUpTo(ByteVals, MaxLen)
\* p []byte arguments of the writes
Datas == SeqsUpTo(ByteVals, MaxData)
\* p []byte arguments of the reads: destinations of every length, filled
\* with a byte the caller left there
Dsts == {[i \in 1 .. k |-> 1] : k \in 0 .. MaxData}
\* off int64 arguments of WriteAt and ReadAt: from below 0 to beyond the end
Offsets == {o \in Int64 : o >= 0 - 1 /\ o <= MaxLen + 1}

----------------------------------------------------------------------------
(* Slices and copy *)

\* b[o:]
SliceFrom(b, o) == SubSeq(b, o + 1, Len(b))
\* b[:o]
SliceTo(b, o) == SubSeq(b, 1, o)

\* the builtin copy(dst, src): n = min(len(dst), len(src)), dst[0:n] = src[0:n]
copy(dst, src) ==
    LET n == Min(Len(dst), Len(src))
    IN [n |-> n,
        dst |-> [i \in 1 .. Len(dst) |-> IF i <= n THEN src[i] ELSE dst[i]]]

----------------------------------------------------------------------------
(* Construction.  A *BufferIO is the record [buf, off]. *)

\* func NewBufferIO(b []byte) *BufferIO
NewBufferIO(b) == [buf |-> b, off |-> 0]

\* func NewBufferIOMake(nbytes int) *BufferIO
NewBufferIOMake(nbytes) == [buf |-> [i \in 1 .. nbytes |-> 0], off |-> 0]

\* func (b *BufferIO) Bytes() []byte
Bytes(b) == b.buf

\* func (b *BufferIO) Size() int64
Size(b) == Len(b.buf)

----------------------------------------------------------------------------
(* Positional and sequential access.  Each method yields its results and   *)
(* the object after the call (self).                                       *)

\* WriteAt refusing data that does not fit instead of truncating it
WriteAtRejectsOverflow(b, p, o) ==
    IF o >= Size(b) \/ o + Len(p) > Size(b)
    THEN [n |-> 0, err |-> ErrOverrun, self |-> b]
    ELSE IF o < 0
         THEN [n |-> 0, err |-> Panic, self |-> b]
         ELSE LET c == copy(SliceFrom(b.buf, o), p)
              IN [n |-> c.n, err |-> NoErr,
                  self |-> [b EXCEPT !.buf = SliceTo(b.buf, o) \o c.dst]]

\* WriteAt testing off > Size: the end of the buffer is a valid position
WriteAtAllowsEnd(b, p, o) ==
    IF o > Size(b)
    THEN [n |-> 0, err |-> ErrOverrun, self |-> b]
    ELSE IF o < 0
         THEN [n |-> 0, err |-> Panic, self |-> b]
         ELSE LET c == copy(SliceFrom(b.buf, o), p)
              IN [n |-> c.n, err |-> NoErr,
                  self |-> [b EXCEPT !.buf = SliceTo(b.buf, o) \o c.dst]]

\* func (b *BufferIO) WriteAt(p []byte, off int64) (n int, err error)
\* A negative off passes the size test and b.buf[off:] panics.
WriteAt(b, p, o) ==
    IF o >= Size(b)
    THEN [n |-> 0, err |-> ErrOverrun, self |-> b]
    ELSE IF o < 0
         THEN [n |-> 0, err |-> Panic, self |-> b]
         ELSE LET c == copy(SliceFrom(b.buf, o), p)
              IN [n |-> c.n, err |-> NoErr,
                  self |-> [b EXCEPT !.buf = SliceTo(b.buf, o) \o c.dst]]

\* ReadAt testing off > Size: the end of the buffer is a valid position
ReadAtAllowsEnd(b, p, o) ==
    IF o > Size(b)
    THEN [n |-> 0, err |-> ErrEOF, p |-> p, self |-> b]
    ELSE IF o < 0
         THEN [n |-> 0, err |-> Panic, p |-> p, self |-> b]
         ELSE LET c == copy(p, SliceFrom(b.buf, o))
              IN [n |-> c.n, err |-> NoErr, p |-> c.dst, self |-> b]

\* ReadAt copying from the start of the buffer whatever the offset
ReadAtFromStart(b, p, o) ==
    IF o >= Size(b)
    THEN [n |-> 0, err |-> ErrEOF, p |-> p, self |-> b]
    ELSE IF o < 0
         THEN [n |-> 0, err |-> Panic, p |-> p, self |-> b]
         ELSE LET c == copy(p, SliceFrom(b.buf, 0))
              IN [n |-> c.n, err |-> NoErr, p |-> c.dst, self |-> b]

\* ReadAt done as a seek to the offset and a sequential read
ReadAtMovesCursor(b, p, o) ==
    IF o >= Size(b)
    THEN [n |-> 0, err |-> ErrEOF, p |-> p, self |-> b]
    ELSE IF o < 0
         THEN [n |-> 0, err |-> Panic, p |-> p, self |-> b]
         ELSE LET c == copy(p, SliceFrom(b.buf, o))
              IN [n |-> c.n, err |-> NoErr, p |-> c.dst,
                  self |-> [b EXCEPT !.off = o + c.n]]

\* func (b *BufferIO) ReadAt(p []byte, off int64) (n int, err error)
ReadAt(b, p, o) ==
    IF o >= Size(b)
    THEN [n |-> 0, err |-> ErrEOF, p |-> p, self |-> b]
    ELSE IF o < 0
         THEN [n |-> 0, err |-> Panic, p |-> p, self |-> b]
         ELSE LET c == copy(p, SliceFrom(b.buf, o))
              IN [n |-> c.n, err |-> NoErr, p |-> c.dst, self |-> b]

\* Write advancing the cursor by len(p) instead of the count copied
WriteAdvancesByLen(b, p) ==
    LET r == WriteAt(b, p, b.off)
    IN [n |-> r.n, err |-> r.err,
        self |-> IF r.err = NoErr
                 THEN [r.self EXCEPT !.off = Add64(r.self.off, Len(p))]
                 ELSE r.self]

\* Write storing every chunk at the start of the buffer
WriteAtStart(b, p) ==
    LET r == WriteAt(b, p, 0)
    IN [n |-> r.n, err |-> r.err,
        self |-> IF r.err = NoErr
                 THEN [r.self EXCEPT !.off = Add64(r.self.off, r.n)]
                 ELSE r.self]

\* func (b *BufferIO) Write(p []byte) (n int, err error)
Write(b, p) ==
    LET r == WriteAt(b, p, b.off)
    IN [n |-> r.n, err |-> r.err,
        self |-> IF r.err = NoErr
                 THEN [r.self EXCEPT !.off = Add64(r.self.off, r.n)]
                 ELSE r.self]

\* Read taking the bytes at the start of the buffer, not at the cursor
ReadFromStart(b, p) ==
    LET r == ReadAt(b, p, 0)
    IN [n |-> r.n, err |-> r.err, p |-> r.p,
        self |-> IF r.err = NoErr
                 THEN [r.self EXCEPT !.off = Add64(r.self.off, r.n)]
                 ELSE r.self]

\* func (b *BufferIO) Read(p []byte) (n int, err error)
Read(b, p) ==
    LET r == ReadAt(b, p, b.off)
    IN [n |-> r.n, err |-> r.err, p |-> r.p,
        self |-> IF r.err = NoErr
                 THEN [r.self EXCEPT !.off = Add64(r.self.off, r.n)]
                 ELSE r.self]

----------------------------------------------------------------------------
(* Seek and Reset *)

\* Seek taking the absolute mode as relative to the cursor
SeekSetIsRelative(b, offset, whence) ==
    IF whence = SEEK_END
    THEN [pos |-> 0, err |-> ErrOverrun, self |-> b]
    ELSE IF whence \notin {SEEK_SET, SEEK_CUR}
    THEN [pos |-> 0, err |-> ErrWhence, self |-> b]
    ELSE LET position == Add64(b.off, offset)
         IN IF position >= Size(b)
            THEN [pos |-> 0, err |-> ErrOverrun, self |-> b]
            ELSE IF position < 0
            THEN [pos |-> 0, err |-> ErrNegative, self |-> b]
            ELSE [pos |-> position, err |-> NoErr,
                  self |-> [b EXCEPT !.off = position]]

\* Seek storing the position before it is validated
SeekStoresFirst(b, offset, whence) ==
    IF whence = SEEK_END
    THEN [pos |-> 0, err |-> ErrOverrun, self |-> b]
    ELSE IF whence \notin {SEEK_SET, SEEK_CUR}
    THEN [pos |-> 0, err |-> ErrWhence, self |-> b]
    ELSE LET position == IF whence = SEEK_SET THEN offset
                         ELSE Add64(b.off, offset)
             moved == [b EXCEPT !.off = position]
         IN IF position >= Size(b)
            THEN [pos |-> 0, err |-> ErrOverrun, self |-> moved]
            ELSE IF position < 0
            THEN [pos |-> 0, err |-> ErrNegative, self |-> moved]
            ELSE [pos |-> position, err |-> NoErr, self |-> moved]

\* Seek testing position > Size: the cursor may be put at the end
SeekAllowsEnd(b, offset, whence) ==
    IF whence = SEEK_END
    THEN [pos |-> 0, err |-> ErrOverrun, self |-> b]
    ELSE IF whence \notin {SEEK_SET, SEEK_CUR}
    THEN [pos |-> 0, err |-> ErrWhence, self |-> b]
    ELSE LET position == IF whence = SEEK_SET THEN offset
                         ELSE Add64(b.off, offset)
         IN IF position > Size(b)
            THEN [pos |-> 0, err |-> ErrOverrun, self |-> b]
            ELSE IF position < 0
            THEN [pos |-> 0, err |-> ErrNegative, self |-> b]
            ELSE [pos |-> position, err |-> NoErr,
                  self |-> [b EXCEPT !.off = position]]

\* Seek with the end-relative mode worked out: position = Size + offset
SeekFromEnd(b, offset, whence) ==
    IF whence \notin {SEEK_SET, SEEK_CUR, SEEK_END}
    THEN [pos |-> 0, err |-> ErrWhence, self |-> b]
    ELSE LET position == IF whence = SEEK_SET THEN offset
                         ELSE IF whence = SEEK_CUR THEN Add64(b.off, offset)
                         ELSE Add64(Size(b), offset)
         IN IF position >= Size(b)
            THEN [pos |-> 0, err |-> ErrOverrun, self |-> b]
            ELSE IF position < 0
            THEN [pos |-> 0, err |-> ErrNegative, self |-> b]
            ELSE [pos |-> position, err |-> NoErr,
                  self |-> [b EXCEPT !.off = position]]

\* func (b *BufferIO) Seek(offset int64, whence int) (int64, error)
Seek(b, offset, whence) ==
    IF whence = SEEK_END
    THEN [pos |-> 0, err |-> ErrOverrun, self |-> b]
    ELSE IF whence \notin {SEEK_SET, SEEK_CUR}
    THEN [pos |-> 0, err |-> ErrWhence, self |-> b]
    ELSE LET position == IF whence = SEEK_SET THEN offset
                         ELSE Add64(b.off, offset)
         IN IF position >= Size(b)
            THEN [pos |-> 0, err |-> ErrOverrun, self |-> b]
            ELSE IF position < 0
            THEN [pos |-> 0, err |-> ErrNegative, self |-> b]
            ELSE [pos |-> position, err |-> NoErr,
                  self |-> [b EXCEPT !.off = position]]

\* Reset on a value receiver: the caller's object is not touched
ResetOnCopy(b) == [self |-> b]

\* func (b *BufferIO) Reset()
Reset(b) == [self |-> [b EXCEPT !.off = 0]]

----------------------------------------------------------------------------
(* encoding/binary as WriteData and ReadData use it *)

\* A value handed to binary.Write / a target handed to binary.Read: a struct
\* or slice of unsigned integers, widths[i] bytes wide each.  fixed = FALSE
\* is a type binary has no size for (a struct with an int field, a string).
BigEndian == "BigEndian"
LittleEndian == "LittleEndian"
Orders == {BigEndian, LittleEndian}

Widths == {1, 2}
Layouts == SeqsUpTo(Widths, MaxFields)

RECURSIVE dataSize(_)
\* binary's dataSize: the encoded size of a layout
dataSize(widths) ==
    IF widths = <<>> THEN 0 ELSE Head(widths) + dataSize(Tail(widths))

\* order.PutUint16 / PutUint32 ...: the w bytes of v
PutUint(order, w, v) ==
    [i \in 1 .. w |->
        IF order = BigEndian
        THEN (v \div TwoPow(8 * (w - i))) % 256
        ELSE (v \div TwoPow(8 * (i - 1))) % 256]

RECURSIVE Uint(_, _)
\* order.Uint16 / Uint32 ...: the value of the bytes bs
Uint(order, bs) ==
    IF bs = <<>> THEN 0
    ELSE IF order = BigEndian
         THEN bs[Len(bs)] + 256 * Uint(order, SubSeq(bs, 1, Len(bs) - 1))
         ELSE bs[1] + 256 * Uint(order, Tail(bs))

RECURSIVE Encode(_, _, _)
\* the encoder's walk over the fields of a value
Encode(order, widths, fields) ==
    IF widths = <<>> THEN <<>>
    ELSE PutUint(order, Head(widths), Head(fields))
         \o Encode(order, Tail(widths), Tail(fields))

RECURSIVE Decode(_, _, _)
\* the decoder's walk over the fields of a target; bs holds dataSize bytes
Decode(order, widths, bs) ==
    IF widths = <<>> THEN <<>>
    ELSE <<Uint(order, SubSeq(bs, 1, Head(widths)))>>
         \o Decode(order, Tail(widths), SubSeq(bs, Head(widths) + 1, Len(bs)))

\* binary.Write(buf, order, data) into an empty bytes.Buffer
BinaryWrite(order, data) ==
    IF ~data.fixed
    THEN [err |-> ErrInvalidType, bytes |-> <<>>]
    ELSE [err |-> NoErr, bytes |-> Encode(order, data.widths, data.fields)]

\* binary.Read(bytes.NewReader(rd), order, data): io.ReadFull of dataSize
\* bytes, then the decode; the target is left alone on an error
BinaryRead(rd, order, data) ==
    IF ~data.fixed
    THEN [err |-> ErrInvalidType, data |-> data]
    ELSE LET size == dataSize(data.widths)
         IN IF Len(rd) >= size
            THEN [err |-> NoErr,
                  data |-> [data EXCEPT
                              !.fields = Decode(order, data.widths, SubSeq(rd, 1, size))]]
            ELSE [err |-> IF Len(rd) = 0 THEN IoEOF ELSE IoUnexpectedEOF,
                  data |-> data]

\* WriteData rewinding the buffer before it writes
WriteDataRewinds(b, order, data) ==
    LET e == BinaryWrite(order, data)
    IN IF e.err # NoErr
       THEN [err |-> e.err, self |-> b]
       ELSE LET w == Write(Reset(b).self, e.bytes)
            IN [err |-> w.err, self |-> w.self]

\* WriteData encoding big-endian whatever order it is given
WriteDataIgnoresOrder(b, order, data) ==
    LET e == BinaryWrite(BigEndian, data)
    IN IF e.err # NoErr
       THEN [err |-> e.err, self |-> b]
       ELSE LET w == Write(b, e.bytes)
            IN [err |-> w.err, self |-> w.self]

\* WriteData refusing a value whose encoding does not fit behind the cursor
WriteDataChecksRoom(b, order, data) ==
    LET e == BinaryWrite(order, data)
    IN IF e.err # NoErr
       THEN [err |-> e.err, self |-> b]
       ELSE IF Len(e.bytes) > Size(b) - b.off
       THEN [err |-> ErrOverrun, self |-> b]
       ELSE LET w == Write(b, e.bytes)
            IN [err |-> w.err, self |-> w.self]

\* func (b *BufferIO) WriteData(order binary.ByteOrder, data interface{}) error
WriteData(b, order, data) ==
    LET e == BinaryWrite(order, data)
    IN IF e.err # NoErr
       THEN [err |-> e.err, self |-> b]
       ELSE LET w == Write(b, e.bytes)
            IN [err |-> w.err, self |-> w.self]

\* ReadData moving the cursor past the bytes it decoded
ReadDataAdvances(b, order, data) ==
    LET r == BinaryRead(SliceFrom(b.buf, b.off), order, data)
    IN [err |-> r.err, data |-> r.data,
        self |-> IF r.err = NoErr
                 THEN [b EXCEPT !.off = Add64(b.off, dataSize(data.widths))]
                 ELSE b]

\* ReadData decoding from the start of the buffer, not from the cursor
ReadDataFromStart(b, order, data) ==
    LET r == BinaryRead(SliceFrom(b.buf, 0), order, data)
    IN [err |-> r.err, data |-> r.data, self |-> b]

\* func (b *BufferIO) ReadData(order binary.ByteOrder, data interface{}) error
ReadData(b, order, data) ==
    LET r == BinaryRead(SliceFrom(b.buf, b.off), order, data)
    IN [err |-> r.err, data |-> r.data, self |-> b]

\* the zero value of a layout
ZeroOf(widths) == [fixed |-> TRUE, widths |-> widths, fields |-> [i \in 1 .. Len(widths) |-> 0]]
\* a value of a type binary cannot size
Unsized == [fixed |-> FALSE, widths |-> <<>>, fields |-> <<>>]
\* the values of a layout whose bytes are drawn from ByteVals
ValuesOf(widths) ==
    {[fixed |-> TRUE, widths |-> widths, fields |-> Decode(BigEndian, widths, bs)] :
        bs \in [1 .. dataSize(widths) -> ByteVals]}
Values == {Unsized} \cup UNION {ValuesOf(w) : w \in Layouts}
Targets == {Unsized} \cup {ZeroOf(w) : w \in Layouts}

----------------------------------------------------------------------------
(* The record of the last call, and the history since construction *)

\* a stream of bytes that is tracked (ok) or no longer tracked
\* chunks counts the non-empty chunks the stream was transferred in
Tracked(s) == [ok |-> TRUE, s |-> s, chunks |-> 0]
Untracked == [ok |-> FALSE, s |-> <<>>, chunks |-> 0]
Append1(t, chunk) ==
    [t EXCEPT !.s = t.s \o chunk,
              !.chunks = IF chunk = <<>> THEN t.chunks ELSE t.chunks + 1]

\* a value written with an order, tracked or not
NoValue == [ok |-> FALSE, order |-> BigEndian, data |-> ZeroOf(<<>>)]
Written(order, data) == [ok |-> TRUE, order |-> order, data |-> data]

\* the call record: arguments, results, and the state the call started in
Call(op, b, c) ==
    [op |-> op, p |-> <<>>, offset |-> 0, whence |-> 0,
     order |-> BigEndian, data |-> ZeroOf(<<>>),
     n |-> 0, err |-> NoErr, out |-> <<>>, pos |-> 0, dout |-> ZeroOf(<<>>),
     buf0 |-> b, off0 |-> c]

\* no call is outstanding
NoCall(b, c) == Call("none", b, c)
Idle == last.op = "none"

\* history of a buffer just constructed over b; src is the stream that was
\* written, by Write calls alone, into the region b was taken from.
\*   len      the length at construction
\*   phase    which of Write and Read have been called, and nothing else
\*   total    the sum of the counts Write and Read returned
\*   init     the content at construction, kept while only Write was called
\*   wstream  the chunks written, in order, while only Write was called and
\*            the chunks fit the buffer
\*   rstream  the bytes delivered, in order, while only Read was called
\*   enc      the order and value of a WriteData that was the only call on
\*            the buffer and filled it exactly
\*   from     the enc of the buffer whose bytes b is, kept until the first
\*            call has returned
FreshFrom(b, src, from) ==
    [len |-> Len(b), init |-> Tracked(b), phase |-> "fresh", total |-> 0,
     wstream |-> Tracked(<<>>), rstream |-> Tracked(<<>>), src |-> src,
     enc |-> NoValue, from |-> from]

Fresh(b, src) == FreshFrom(b, src, NoValue)

PhaseAfter(phase, op) ==
    IF op = "Write"
    THEN IF phase \in {"fresh", "W"} THEN "W"
         ELSE IF phase \in {"R", "WR"} THEN "WR" ELSE "other"
    ELSE IF op = "Read"
    THEN IF phase \in {"fresh", "R"} THEN "R"
         ELSE IF phase \in {"W", "WR"} THEN "WR" ELSE "other"
    ELSE "other"

\* history after the call l
HistAfter(h, l) ==
    LET ph == PhaseAfter(h.phase, l.op)
    IN [h EXCEPT
         !.phase = ph,
         !.total = IF ph = "other" THEN 0 ELSE h.total + l.n,
         !.init = IF ph = "W" THEN h.init ELSE Untracked,
         !.wstream = IF ph = "W" /\ h.wstream.ok
                        /\ Len(h.wstream.s) + Len(l.p) <= h.len
                     THEN Append1(h.wstream, l.p)
                     ELSE Untracked,
         !.rstream = IF ph = "R" /\ h.rstream.ok
                     THEN Append1(h.rstream, SubSeq(l.out, 1, l.n))
                     ELSE Untracked,
         !.src = IF ph = "R" THEN h.src ELSE Untracked,
         !.enc = IF /\ h.phase = "fresh"
                    /\ l.op = "WriteData"
                    /\ l.err = NoErr
                    /\ dataSize(l.data.widths) = h.len
                 THEN Written(l.order, l.data)
                 ELSE NoValue,
         !.from = IF h.phase = "fresh" /\ l.op = "ReadData"
                  THEN h.from ELSE NoValue]

TypeOK ==
    /\ buf \in Buffers
    /\ off \in Int64
    /\ last.op \in {"none", "WriteAt", "ReadAt", "Write", "Read", "Seek",
                    "Reset", "WriteData", "ReadData"}
    /\ hist.phase \in {"fresh", "W", "R", "WR", "other"}

----------------------------------------------------------------------------
(* Initial state and actions *)

\* the object the variables hold
Self == [buf |-> buf, off |-> off]

\* the call l has run and left the object st
Becomes(st, l) ==
    /\ buf' = st.buf
    /\ off' = st.off
    /\ last' = l
    /\ hist' = HistAfter(hist, l)

Init ==
    \E st \in {NewBufferIO(b) : b \in Buffers}
              \cup {NewBufferIOMake(k) : k \in 0 .. MaxLen} :
        /\ buf = st.buf
        /\ off = st.off
        /\ last = NoCall(st.buf, st.off)
        /\ hist = Fresh(st.buf, Untracked)

\* NewBufferIO(b.Bytes()[:k]): a second buffer over a prefix of the region
DoNewBufferIO ==
    \E k \in 0 .. Len(buf) :
        LET st == NewBufferIO(SliceTo(Bytes(Self), k))
        IN /\ Idle
           /\ buf' = st.buf
           /\ off' = st.off
           /\ last' = NoCall(st.buf, st.off)
           /\ hist' = Fresh(st.buf,
                            IF hist.phase \in {"fresh", "W"} /\ hist.wstream.ok
                               /\ k = Len(hist.wstream.s)
                            THEN hist.wstream ELSE Untracked)

DoWriteAt ==
    \E p \in Datas, o \in Offsets :
        LET r == WriteAt(Self, p, o)
        IN /\ Idle
           /\ Becomes(r.self, [Call("WriteAt", buf, off) EXCEPT
                                 !.p = p, !.offset = o, !.n = r.n, !.err = r.err])

DoReadAt ==
    \E p \in Dsts, o \in Offsets :
        LET r == ReadAt(Self, p, o)
        IN /\ Idle
           /\ Becomes(r.self, [Call("ReadAt", buf, off) EXCEPT
                                 !.p = p, !.offset = o, !.n = r.n, !.err = r.err,
                                 !.out = r.p])

DoWrite ==
    \E p \in Datas :
        LET r == Write(Self, p)
        IN /\ Idle
           /\ Becomes(r.self, [Call("Write", buf, off) EXCEPT
                                 !.p = p, !.n = r.n, !.err = r.err])

DoRead ==
    \E p \in Dsts :
        LET r == Read(Self, p)
        IN /\ Idle
           /\ Becomes(r.self, [Call("Read", buf, off) EXCEPT
                                 !.p = p, !.n = r.n, !.err = r.err, !.out = r.p])

DoSeek ==
    \E offset \in Int64, whence \in Whences :
        LET r == Seek(Self, offset, whence)
        IN /\ Idle
           /\ Becomes(r.self, [Call("Seek", buf, off) EXCEPT
                                 !.offset = offset, !.whence = whence,
                                 !.pos = r.pos, !.err = r.err])

DoReset ==
    LET r == Reset(Self)
    IN /\ Idle
       /\ Becomes(r.self, Call("Reset", buf, off))

DoWriteData ==
    \E order \in Orders, data \in Values :
        LET r == WriteData(Self, order, data)
        IN /\ Idle
           /\ Becomes(r.self, [Call("WriteData", buf, off) EXCEPT
                                 !.order = order, !.data = data, !.err = r.err])

DoReadData ==
    \E order \in Orders, data \in Targets :
        LET r == ReadData(Self, order, data)
        IN /\ Idle
           /\ Becomes(r.self, [Call("ReadData", buf, off) EXCEPT
                                 !.order = order, !.data = data, !.err = r.err,
                                 !.dout = r.data])

\* the call returns: the caller has the results, the record is dropped
DoReturn ==
    /\ ~Idle
    /\ last' = NoCall(buf, off)
    /\ UNCHANGED <<buf, off, hist>>

Next ==
    \/ DoReturn
    \/ DoNewBufferIO
    \/ DoWriteAt
    \/ DoReadAt
    \/ DoWrite
    \/ DoRead
    \/ DoSeek
    \/ DoReset
    \/ DoWriteData
    \/ DoReadData

Spec == Init /\ [][Next]_vars

----------------------------------------------------------------------------
(* The round trip of a value: WriteData into a buffer made for it, a second *)
(* buffer over the bytes, ReadData there.  The values have fields of 1, 2   *)
(* and 4 bytes.                                                             *)

\* most fields in a value of the round trip
RTMaxFields == 2
RTWidths == {1, 2, 4}
\* the bytes of the encoded values
RTByteVals == {1, 127}
RTLayouts == SeqsUpTo(RTWidths, RTMaxFields) \ {<<>>}
RTValuesOf(widths) ==
    {[fixed |-> TRUE, widths |-> widths, fields |-> Decode(BigEndian, widths, bs)] :
        bs \in [1 .. dataSize(widths) -> RTByteVals]}

\* NewBufferIOMake(n), n the encoded size of a layout
InitRT ==
    \E w \in RTLayouts :
        LET st == NewBufferIOMake(dataSize(w))
        IN /\ buf = st.buf
           /\ off = st.off
           /\ last = NoCall(st.buf, st.off)
           /\ hist = Fresh(st.buf, Untracked)

\* WriteData of a value whose encoded size is the length of the new buffer
RTWriteData ==
    /\ Idle
    /\ hist.phase = "fresh"
    /\ ~hist.from.ok
    /\ \E order \in Orders, w \in {x \in RTLayouts : dataSize(x) = Len(buf)} :
          \E data \in RTValuesOf(w) :
              LET r == WriteData(Self, order, data)
              IN Becomes(r.self, [Call("WriteData", buf, off) EXCEPT
                                    !.order = order, !.data = data,
                                    !.err = r.err])

\* NewBufferIO(b.Bytes()) once the value is written
RTNewBufferIO ==
    LET st == NewBufferIO(Bytes(Self))
    IN /\ Idle
       /\ hist.enc.ok
       /\ buf' = st.buf
       /\ off' = st.off
       /\ last' = NoCall(st.buf, st.off)
       /\ hist' = FreshFrom(st.buf, Untracked, hist.enc)

\* ReadData, in either order, into a zero value of the layout written
RTReadData ==
    /\ Idle
    /\ hist.phase = "fresh"
    /\ hist.from.ok
    /\ \E order \in Orders :
        LET data == ZeroOf(hist.from.data.widths)
            r == ReadData(Self, order, data)
        IN Becomes(r.self, [Call("ReadData", buf, off) EXCEPT
                                 !.order = order, !.data = data, !.err = r.err,
                                 !.dout = r.data])

NextRT ==
    \/ DoReturn
    \/ RTWriteData
    \/ RTNewBufferIO
    \/ RTReadData

SpecRT == InitRT /\ [][NextRT]_vars

----------------------------------------------------------------------------
(* Claims *)

\* the object the last call started on
Before == [buf |-> last.buf0, off |-> last.off0]

\* C1: in every state reachable from construction by any sequence of calls,
\* successful or failing, 0 <= cursor <= length, and the length of the buffer
\* is the length it was constructed with.
C1_CursorWithinLength ==
    /\ 0 <= off
    /\ off <= Len(buf)
    /\ Len(buf) = hist.len

\* a Write that was cut short by the end of the buffer left the cursor at length
C1_Witness ==
    /\ last.op = "Write"
    /\ last.err = NoErr
    /\ last.n < Len(last.p)
    /\ off = Len(buf)

\* C2: for 0 <= offset < length and data of any size, WriteAt(data, offset)
\* returns no error and the count k = min(len(data), length - offset); bytes
\* [offset, offset+k) of the buffer are data[0..k) and every other byte is as
\* before.  Data that overflows the region is truncated, not refused.
C2_WriteAtCopies ==
    (last.op = "WriteAt" /\ 0 <= last.offset /\ last.offset < Len(last.buf0))
    => LET k == Min(Len(last.p), Len(last.buf0) - last.offset)
       IN /\ last.err = NoErr
          /\ last.n = k
          /\ Len(buf) = Len(last.buf0)
          /\ \A i \in 1 .. Len(buf) :
                buf[i] = IF last.offset < i /\ i <= last.offset + k
                         THEN last.p[i - last.offset]
                         ELSE last.buf0[i]

\* a WriteAt past the start whose data overflowed the region and changed it
C2_Witness ==
    /\ last.op = "WriteAt"
    /\ 0 < last.offset
    /\ last.offset < Len(last.buf0)
    /\ Len(last.p) > Len(last.buf0) - last.offset
    /\ last.n = Len(last.buf0) - last.offset
    /\ buf # last.buf0

\* C3: for every offset >= length and every data or destination (also an
\* empty one), WriteAt returns 0 bytes and Overrun, ReadAt returns 0 bytes and
\* EndOfData, and the buffer content and the cursor are as before.
C3_AtOrPastEndFails ==
    (last.op \in {"WriteAt", "ReadAt"} /\ last.offset >= Len(last.buf0))
    => /\ last.n = 0
       /\ last.err = IF last.op = "WriteAt" THEN ErrOverrun ELSE ErrEOF
       /\ buf = last.buf0
       /\ off = last.off0

\* a WriteAt of no data exactly at the end of a non-empty buffer was refused
C3_Witness ==
    /\ last.op = "WriteAt"
    /\ last.p = <<>>
    /\ Len(last.buf0) > 0
    /\ last.offset = Len(last.buf0)
    /\ last.err = ErrOverrun

\* C4: from a state with cursor c, Write(data) has the count, the error and
\* the buffer content of WriteAt(data, c) and leaves the cursor at c plus the
\* count; Read(dst) has the count, the error and the delivered bytes of
\* ReadAt(dst, c) and leaves the cursor at c plus the count.
C4_SequentialIsPositionalAtCursor ==
    /\ last.op = "Write"
       => LET r == WriteAt(Before, last.p, last.off0)
          IN /\ last.n = r.n
             /\ last.err = r.err
             /\ buf = r.self.buf
             /\ off = last.off0 + last.n
    /\ last.op = "Read"
       => LET r == ReadAt(Before, last.p, last.off0)
          IN /\ last.n = r.n
             /\ last.err = r.err
             /\ last.out = r.p
             /\ buf = last.buf0
             /\ off = last.off0 + last.n

\* a Read from a cursor past the start delivered bytes and moved the cursor
C4_Witness ==
    /\ last.op = "Read"
    /\ last.off0 > 0
    /\ last.n > 0
    /\ off = last.off0 + last.n
    /\ last.out # last.p

\* C5: after any sequence of Write and Read calls on a freshly constructed
\* buffer the cursor is the sum of the counts the calls returned and is at
\* most length; a Write or Read made with the cursor at length, with any
\* data or destination, returns 0 bytes and an error (Overrun for Write,
\* EndOfData for Read).
C5_CursorIsSumOfCounts ==
    /\ hist.phase \in {"fresh", "W", "R", "WR"}
       => (off = hist.total /\ off <= Len(buf))
    /\ (last.op \in {"Write", "Read"} /\ last.off0 = Len(last.buf0))
       => /\ last.n = 0
          /\ last.err = IF last.op = "Write" THEN ErrOverrun ELSE ErrEOF

\* writes and reads filled a buffer to its end and a Read of an empty
\* destination then failed
C5_Witness ==
    /\ hist.phase = "WR"
    /\ hist.total = Len(buf)
    /\ hist.total > 1
    /\ last.op = "Read"
    /\ last.p = <<>>
    /\ last.err = ErrEOF

\* C6: chunks written with Write on a fresh buffer, their total size at most
\* length, leave the buffer prefix equal to the chunks in order, the cursor
\* behind them and the bytes beyond the cursor at their initial value; Read
\* calls of any chunk sizes on a buffer constructed over the written region
\* deliver the written bytes in order, and all of them once the total is read.
C6_WritesAccumulate ==
    /\ (hist.phase \in {"fresh", "W"} /\ hist.wstream.ok)
       => /\ off = Len(hist.wstream.s)
          /\ SliceTo(buf, off) = hist.wstream.s
          /\ hist.init.ok
          /\ \A i \in (off + 1) .. Len(buf) : buf[i] = hist.init.s[i]
    /\ (hist.phase \in {"fresh", "R"} /\ hist.src.ok)
       => /\ hist.rstream.ok
          /\ Len(hist.rstream.s) = off
          /\ hist.rstream.s = SliceTo(hist.src.s, off)
          /\ off = Len(buf) => hist.rstream.s = hist.src.s

\* a stream written in two or more chunks was read back whole in two or more
\* chunks from a buffer over the written region
C6_Witness ==
    /\ hist.phase = "R"
    /\ hist.src.ok
    /\ hist.src.chunks >= 2
    /\ hist.rstream.chunks >= 2
    /\ hist.rstream.s = hist.src.s
    /\ \E i \in 1 .. Len(hist.src.s) : hist.src.s[i] # 0

\* C7: for 0 <= offset < length and data of any size, WriteAt(data, offset)
\* followed by ReadAt(dst, offset) with len(dst) = len(data) returns the count
\* min(len(data), length - offset), and the first count bytes of dst are the
\* first count bytes of data.
C7_WriteAtReadAtRoundTrip ==
    (last.op = "WriteAt" /\ 0 <= last.offset /\ last.offset < Len(last.buf0))
    => \A dst \in Datas :
          Len(dst) = Len(last.p)
          => LET r == ReadAt(Self, dst, last.offset)
                 k == Min(Len(last.p), Len(last.buf0) - last.offset)
             IN /\ r.err = NoErr
                /\ r.n = k
                /\ SliceTo(r.p, k) = SliceTo(last.p, k)

\* a WriteAt past the start stored data that differs from what was there and
\* was cut short by the end of the buffer
C7_Witness ==
    /\ last.op = "WriteAt"
    /\ last.err = NoErr
    /\ 0 < last.offset
    /\ 0 < last.n
    /\ last.n < Len(last.p)
    /\ SliceFrom(last.buf0, last.offset) # SliceTo(last.p, last.n)

\* C8: WriteAt and ReadAt never move the cursor: whatever the arguments and
\* whether the call succeeds or fails, the cursor after the call is the
\* cursor before it, so a following Write or Read starts where it would have.
C8_PositionalKeepsCursor ==
    last.op \in {"WriteAt", "ReadAt"}
    => /\ off = last.off0
       /\ \A p \in Dsts : Read(Self, p).p = Read([Self EXCEPT !.off = last.off0], p).p

\* a ReadAt away from the cursor delivered bytes
C8_Witness ==
    /\ last.op = "ReadAt"
    /\ last.n > 0
    /\ last.off0 > 0
    /\ last.offset # last.off0
    /\ off = last.off0

\* C9 (as amended): in absolute mode candidate = offset, in relative mode
\* candidate = cursor + offset in int64 arithmetic, which wraps around.  Seek
\* succeeds exactly when 0 <= candidate < length, and then the cursor becomes
\* candidate and candidate is returned; candidate >= length is rejected with
\* Overrun, candidate < 0 (also a sum that wrapped) with InvalidArgument, an
\* unknown mode with InvalidArgument whatever the offset; a rejected Seek
\* leaves the cursor alone.
SeekRule(candidate) ==
    /\ last.err = NoErr <=> (0 <= candidate /\ candidate < Len(last.buf0))
    /\ last.err = NoErr => (off = candidate /\ last.pos = candidate)
    /\ candidate >= Len(last.buf0) => last.err = ErrOverrun
    /\ candidate < 0 => last.err \in InvalidArgument
    /\ last.err # NoErr => off = last.off0

SeekUnknownModeRule ==
    (last.op = "Seek" /\ last.whence \notin {SEEK_SET, SEEK_CUR, SEEK_END})
    => (last.err \in InvalidArgument /\ off = last.off0)

C9_SeekCandidateWraps ==
    /\ (last.op = "Seek" /\ last.whence = SEEK_SET) => SeekRule(last.offset)
    /\ (last.op = "Seek" /\ last.whence = SEEK_CUR)
       => SeekRule(Add64(last.off0, last.offset))
    /\ SeekUnknownModeRule

\* C9 as stated: candidate = cursor + offset, the sum of the two numbers
C9_SeekCandidateIsSum ==
    /\ (last.op = "Seek" /\ last.whence = SEEK_SET) => SeekRule(last.offset)
    /\ (last.op = "Seek" /\ last.whence = SEEK_CUR)
       => SeekRule(last.off0 + last.offset)
    /\ SeekUnknownModeRule

\* a relative Seek whose sum is beyond the largest int64 was rejected as a
\* negative position
C9_Witness ==
    /\ last.op = "Seek"
    /\ last.whence = SEEK_CUR
    /\ last.off0 + last.offset > MaxInt64
    /\ last.err = ErrNegative
    /\ off = last.off0

DstOf(k) == [i \in 1 .. k |-> 1]

\* C11: Seek(-k, relative-to-end) with 0 < k <= length returns length - k
\* with no error and puts the cursor there, and a Read of k bytes that
\* follows returns the last k bytes of the buffer.
C11_SeekFromEndWorks ==
    (/\ last.op = "Seek"
     /\ last.whence = SEEK_END
     /\ last.offset < 0
     /\ 0 - last.offset <= Len(last.buf0))
    => LET k == 0 - last.offset
           r == Read(Self, DstOf(k))
       IN /\ last.err = NoErr
          /\ last.pos = Len(last.buf0) - k
          /\ off = Len(last.buf0) - k
          /\ r.err = NoErr
          /\ r.n = k
          /\ r.p = SliceFrom(buf, Len(buf) - k)

\* the Seek to offset 0 in absolute mode, and the Read of the whole length
\* that follows it
SeekStartThenReadAll ==
    LET r == Read(Self, DstOf(Len(buf)))
    IN /\ last.err = NoErr
       /\ last.pos = 0
       /\ off = 0
       /\ r.err = NoErr
       /\ r.n = Len(buf)
       /\ r.p = buf

\* C12 (as amended): from any reachable state of a buffer of length 1 or
\* more, whatever the cursor, an absolute Seek to 0 succeeds and a Read into a
\* destination of the full length that follows returns length bytes, the
\* whole content.
C12_SeekStartReadsAll ==
    (/\ last.op = "Seek"
     /\ last.whence = SEEK_SET
     /\ last.offset = 0
     /\ Len(last.buf0) > 0)
    => SeekStartThenReadAll

\* C12 as stated: for a buffer of any length, the empty one included
C12_SeekStartReadsAllAnyLength ==
    (last.op = "Seek" /\ last.whence = SEEK_SET /\ last.offset = 0)
    => SeekStartThenReadAll

\* an absolute Seek to 0 was made with the cursor at the end of a buffer that
\* holds different bytes
C12_Witness ==
    /\ last.op = "Seek"
    /\ last.whence = SEEK_SET
    /\ last.offset = 0
    /\ last.off0 = Len(last.buf0)
    /\ off = 0
    /\ \E i, j \in 1 .. Len(buf) : buf[i] # buf[j]

\* the bytes between the cursor and the end when the last call started
Room0 == Len(last.buf0) - last.off0

\* C13: ReadData decodes the bytes that start at the cursor and leaves the
\* cursor where it was, whether it succeeds or fails, so a second ReadData
\* for the same layout yields the same value; a successful WriteData moves
\* the cursor by the number of bytes it wrote.
C13_ReadDataKeepsCursor ==
    /\ last.op = "ReadData"
       => /\ off = last.off0
          /\ buf = last.buf0
          /\ last.err = NoErr
             => last.dout.fields =
                   Decode(last.order, last.data.widths,
                          SubSeq(last.buf0, last.off0 + 1,
                                 last.off0 + dataSize(last.data.widths)))
          /\ LET again == ReadData(Self, last.order, last.dout)
             IN again.err = last.err /\ again.data = last.dout
    /\ (last.op = "WriteData" /\ last.err = NoErr)
       => /\ off = last.off0 + Min(dataSize(last.data.widths), Room0)
          /\ SubSeq(buf, last.off0 + 1, off)
               = SliceTo(Encode(last.order, last.data.widths, last.data.fields),
                         off - last.off0)

\* a ReadData past the start of the buffer decoded a value that is not zero
C13_Witness ==
    /\ last.op = "ReadData"
    /\ last.err = NoErr
    /\ last.off0 > 0
    /\ dataSize(last.data.widths) > 0
    /\ last.dout # last.data
    /\ off = last.off0

\* C14: WriteData of a value that has an encoding behaves as a Write of the
\* encoded bytes: with cursor < length and an encoding longer than length -
\* cursor, the first length - cursor encoded bytes are stored, no error is
\* returned and the cursor ends at length; with cursor = length, WriteData
\* returns Overrun and stores nothing.
C14_WriteDataOverrun ==
    (last.op = "WriteData" /\ last.data.fixed)
    => LET bytes == Encode(last.order, last.data.widths, last.data.fields)
       IN /\ (last.off0 < Len(last.buf0) /\ Len(bytes) > Room0)
             => /\ last.err = NoErr
                /\ off = Len(buf)
                /\ SliceFrom(buf, last.off0) = SliceTo(bytes, Room0)
                /\ SliceTo(buf, last.off0) = SliceTo(last.buf0, last.off0)
          /\ last.off0 = Len(last.buf0)
             => /\ last.err = ErrOverrun
                /\ buf = last.buf0
                /\ off = last.off0

\* a two-byte value was written with one byte of room left, and changed it
C14_Witness ==
    /\ last.op = "WriteData"
    /\ last.data.fixed
    /\ dataSize(last.data.widths) = 2
    /\ Room0 = 1
    /\ last.err = NoErr
    /\ off = Len(buf)
    /\ buf # last.buf0

\* C15: ReadData into a fixed-width target fails whenever length - cursor
\* is smaller than the encoded size of the target, and then the buffer
\* content, the cursor and the target are as before; it succeeds whenever
\* length - cursor is at least the encoded size.
C15_ReadDataNeedsRoom ==
    (last.op = "ReadData" /\ last.data.fixed)
    => LET size == dataSize(last.data.widths)
       IN /\ Room0 < size
             => /\ last.err # NoErr
                /\ buf = last.buf0
                /\ off = last.off0
                /\ last.dout = last.data
          /\ Room0 >= size => last.err = NoErr

\* a ReadData found fewer bytes behind the cursor than the target needs, in
\* a buffer that is long enough to hold it
C15_Witness ==
    /\ last.op = "ReadData"
    /\ last.data.fixed
    /\ 0 < Room0
    /\ Room0 < dataSize(last.data.widths)
    /\ dataSize(last.data.widths) <= Len(last.buf0)
    /\ last.err = IoUnexpectedEOF

\* C17: no call is fatal: with every argument, a negative offset to WriteAt
\* or ReadAt included, each method returns a result or an error value to its
\* caller and none aborts on an out-of-range access.
C17_NoCallIsFatal ==
    last.op # "none" => last.err # Panic

\* C18: when Write, Read, Seek, WriteData or ReadData returns an error, the
\* cursor and every byte of the buffer are what they were before the call.
C18_ErrorLeavesState ==
    (/\ last.op \in {"Write", "Read", "Seek", "WriteData", "ReadData"}
     /\ last.err # NoErr)
    => /\ buf = last.buf0
       /\ off = last.off0

\* a relative Seek forward from inside the buffer was rejected as an overrun
C18_Witness ==
    /\ last.op = "Seek"
    /\ last.whence = SEEK_CUR
    /\ last.off0 > 0
    /\ last.offset > 0
    /\ last.err = ErrOverrun
    /\ off = last.off0

\* the bytes of the buffer outside positions lo .. hi-1 are as before the call
SameOutside(lo, hi) ==
    /\ Len(buf) = Len(last.buf0)
    /\ \A i \in 1 .. Len(buf) : (i <= lo \/ i > hi) => buf[i] = last.buf0[i]

\* C19: Read, ReadAt, ReadData, Seek and Reset leave every byte of the buffer
\* as it was; WriteAt, Write and WriteData change bytes only inside
\* [offset, offset + count), the offset of Write and WriteData being the
\* cursor before the call.
C19_OnlyWritesChangeContent ==
    /\ last.op \in {"Read", "ReadAt", "ReadData", "Seek", "Reset"}
       => buf = last.buf0
    /\ last.op = "WriteAt" => SameOutside(last.offset, last.offset + last.n)
    /\ last.op = "Write" => SameOutside(last.off0, last.off0 + last.n)
    /\ last.op = "WriteData" => SameOutside(last.off0, off)

\* a WriteData past the start of the buffer changed a byte
C19_Witness ==
    /\ last.op = "WriteData"
    /\ last.off0 > 0
    /\ last.err = NoErr
    /\ buf # last.buf0

\* C20: Reset puts the cursor at 0 from every state, also from cursor =
\* length and on a zero-length buffer (where an absolute Seek to 0 is
\* rejected), and leaves content and length alone; on a non-empty buffer a
\* Read or Write that follows transfers from position 0.
C20_ResetRewinds ==
    last.op = "Reset"
    => /\ off = 0
       /\ buf = last.buf0
       /\ last.err = NoErr
       /\ Len(buf) = 0 => Seek(Self, 0, SEEK_SET).err = ErrOverrun
       /\ Len(buf) > 0
          => /\ \A p \in Dsts :
                  LET r == Read(Self, p)
                  IN /\ r.err = NoErr
                     /\ r.n = Min(Len(p), Len(buf))
                     /\ SliceTo(r.p, r.n) = SliceTo(buf, r.n)
             /\ \A p \in Datas :
                  LET w == Write(Self, p)
                  IN /\ w.err = NoErr
                     /\ w.n = Min(Len(p), Len(buf))
                     /\ SliceTo(w.self.buf, w.n) = SliceTo(p, w.n)
                     /\ SliceFrom(w.self.buf, w.n) = SliceFrom(buf, w.n)

\* a Reset was made with the cursor at the end of a non-empty buffer
C20_Witness ==
    /\ last.op = "Reset"
    /\ Len(last.buf0) > 0
    /\ last.off0 = Len(last.buf0)
    /\ off = 0

\* the 32-bit value of four bytes, most significant first
Be32(b0, b1, b2, b3) == b0 * 16777216 + b1 * 65536 + b2 * 256 + b3

\* C16: for every fixed-layout value v and each byte order o, WriteData(o, v)
\* into a fresh buffer of exactly the encoded size, then ReadData(o, target)
\* on a buffer constructed over those bytes, yields target = v; big-endian,
\* the bytes [b0,b1,b2,b3] decode to b0*2^24 + b1*2^16 + b2*2^8 + b3, and
\* little-endian to the value of the bytes reversed.
C16_StructuredRoundTrip ==
    /\ (/\ last.op = "ReadData"
        /\ hist.from.ok
        /\ last.order = hist.from.order
        /\ last.data = ZeroOf(hist.from.data.widths))
       => /\ last.err = NoErr
          /\ last.dout = hist.from.data
    /\ (/\ last.op = "ReadData"
        /\ last.err = NoErr
        /\ last.data.widths # <<>>
        /\ Head(last.data.widths) = 4)
       => LET b == SubSeq(last.buf0, last.off0 + 1, last.off0 + 4)
          IN last.dout.fields[1] =
                IF last.order = BigEndian
                THEN Be32(b[1], b[2], b[3], b[4])
                ELSE Be32(b[4], b[3], b[2], b[1])

\* a value of two fields of different widths, the first of 32 bits, whose
\* encodings in the two orders differ, came back from a little-endian round
\* trip
C16_Witness ==
    /\ last.op = "ReadData"
    /\ hist.from.ok
    /\ hist.from.order = LittleEndian
    /\ last.order = LittleEndian
    /\ last.data.widths = <<4, 2>>
    /\ last.dout = hist.from.data
    /\ Encode(BigEndian, last.dout.widths, last.dout.fields)
         # Encode(LittleEndian, last.dout.widths, last.dout.fields)

====
